---- MODULE Spec2Model ----
(***************************************************************************)
(* State-machine model of the todo backend: the five operation handlers    *)
(* (server/src/handlers) over the single todos table.                      *)
(*                                                                         *)
(* Every handler call is one atomic step: each handler issues at most one  *)
(* store statement.  Its result stays in `last` until the awaiting caller  *)
(* takes it (Return); calls are awaited one by one.  Time passes between   *)
(* calls.  The store's clock (the column default now()) and the            *)
(* application's clock (new Date() in the handlers) are two clocks of      *)
(* millisecond resolution; neither runs backwards here.                    *)
(*                                                                         *)
(* createTodo and getTodo are modelled as they stand in the source: both   *)
(* resolve with an object built without any store statement.  Rows enter   *)
(* the table through db.insert, as in the handlers' tests.  Of the two     *)
(* updateTodo bodies in handlers/update_todo.ts the one modelled is the    *)
(* store-backed one (lines 6-39), which the update tests exercise.         *)
(***************************************************************************)
EXTENDS Integers, Sequences, FiniteSets, TLC

\* ---- bounds ----
MaxId == 2      \* rows the serial sequence hands out before inserts stop
MaxTime == 1    \* clock readings are 0..MaxTime
MaxCalls == 3   \* calls made in one run

\* ---- value domains ----
Titles == {"T", "U"}                 \* non-empty titles
NULL == "null"                       \* the null description
Descriptions == {"d"}                \* description strings given at insert
NewDescriptions == {"e"}             \* description strings given at update
Ids == 0..MaxId                      \* ids a caller may pass (0 is never stored)
Times == 0..MaxTime

NoResult == [null |-> TRUE]          \* a handler's null return value
NoCreate == [id |-> -1]              \* lastCreated when there is no such createTodo

VARIABLES
    todosTable,   \* the rows of the todos table
    nextId,       \* the table's serial sequence: next id to hand out
    dbNow,        \* the store's clock
    appNow,       \* the application's clock
    deletedIds,   \* history: ids for which a deleteTodo removed a row
    issuedIds,    \* history: ids returned by createTodo calls so far
    lastCreated,  \* history: input and returned id of the latest createTodo whose
                  \*          id was not passed to updateTodo or deleteTodo since
    last,         \* the last call: op, input, result, and the table before it
    calls,        \* number of calls made so far
    pending,      \* per client: the call it has in flight, if any
    todos,        \* App: the todos state, a list of rows
    editingTodo,  \* App: the todo being edited, or null
    loaded        \* App: whether the loadTodos of the mount effect has settled

vars == <<todosTable, nextId, dbNow, appNow, deletedIds, issuedIds, lastCreated,
          last, calls, pending, todos, editingTodo, loaded>>

\* The state of App (client/src/App.tsx).
appVars == <<todos, editingTodo, loaded>>

\* The state of the clients, which the handlers awaited one by one never touch.
clientVars == <<pending, todos, editingTodo, loaded>>

\* The clients calling the server at the same time.
Clients == {"c1", "c2"}

\* A client with no call in flight.
NoCall == [phase |-> "idle"]

\* ---- inputs ----
CreateTodoInputs == [title : Titles, description : Descriptions \cup {NULL}]

\* An update input is a record holding exactly the keys that are present.
UpdateTodoInputs ==
    LET withT(S) == S \cup UNION {{[k \in DOMAIN i \cup {"title"} |->
                          IF k = "title" THEN t ELSE i[k]] : t \in Titles} : i \in S}
        withD(S) == S \cup UNION {{[k \in DOMAIN i \cup {"description"} |->
                          IF k = "description" THEN d ELSE i[k]]
                              : d \in NewDescriptions \cup {NULL}} : i \in S}
        withC(S) == S \cup UNION {{[k \in DOMAIN i \cup {"completed"} |->
                          IF k = "completed" THEN c ELSE i[k]] : c \in BOOLEAN} : i \in S}
    IN  withC(withD(withT({[id |-> i] : i \in Ids})))

IdInputs == [id : Ids]

\* ---- validation (schema.ts) ----
RawTitles == Titles \cup {""}         \* titles a caller may send

\* What a caller may send to the create procedure: any title, a description
\* (string or null) or no description key at all.
RawCreateInputs ==
    [title : RawTitles, description : Descriptions \cup {NULL}] \cup [title : RawTitles]

\* What a caller may send to the update procedure: as UpdateTodoInputs, the
\* title possibly empty.
RawUpdateInputs ==
    UpdateTodoInputs \cup
        {[i EXCEPT !.title = ""] : i \in {j \in UpdateTodoInputs : "title" \in DOMAIN j}}

\* z.string().min(1, "Title is required")
StringMin1(s) == s # ""

\* Variant: title: z.string(), the min(1) is missing.
createTodoInputSchemaNoMin(input) ==
    /\ "title" \in DOMAIN input
    /\ "description" \in DOMAIN input

\* createTodoInputSchema: title a string of at least one character,
\* description a string or null (undefined not allowed).
createTodoInputSchema(input) ==
    /\ "title" \in DOMAIN input /\ StringMin1(input.title)
    /\ "description" \in DOMAIN input

\* Variant: title: z.string().optional(), the min(1) is missing.
updateTodoInputSchemaNoMin(input) == "id" \in DOMAIN input

\* updateTodoInputSchema: id, and optionally a title of at least one
\* character, a description (string or null), completed.
updateTodoInputSchema(input) ==
    /\ "id" \in DOMAIN input
    /\ "title" \in DOMAIN input => StringMin1(input.title)

\* ---- the table ----
\* Variant: the WHERE clause is dropped, every row matches.
RowsWithIdNoWhere(rows, i) == rows

\* Variant: the comparison is <= instead of =.
RowsWithIdUpTo(rows, i) == {r \in rows : r.id <= i}

\* Rows matching WHERE id = i.
RowsWithId(rows, i) == {r \in rows : r.id = i}

\* The row an insert stores: serial id, completed as given, both timestamps
\* defaulting to the store's now().
NewRow(id, title, description, completed, now) ==
    [id |-> id, title |-> title, description |-> description,
     completed |-> completed, created_at |-> now, updated_at |-> now]

\* No call is awaiting delivery of its result: calls are awaited one by one.
Idle == last.op = "none"

\* A call starts when the previous one was delivered; it is counted.
StartCall == Idle /\ calls < MaxCalls /\ calls' = calls + 1

Init ==
    /\ todosTable = {}
    /\ nextId = 1
    /\ dbNow = 0
    /\ appNow = 0
    /\ deletedIds = {}
    /\ issuedIds = {}
    /\ lastCreated = NoCreate
    /\ last = [op |-> "none"]
    /\ calls = 0
    /\ pending = [c \in Clients |-> NoCall]
    /\ todos = <<>>
    /\ editingTodo = NoResult
    /\ loaded = "no"

\* Test helper createTestTodo: db.insert(todosTable).values({title,
\* description, completed: false}).returning()
createTestTodo(todoData) ==
    /\ StartCall
    /\ nextId <= MaxId
    /\ LET row == NewRow(nextId, todoData.title, todoData.description, FALSE, dbNow)
       IN  /\ todosTable' = todosTable \cup {row}
           /\ last' = [op |-> "insert", input |-> todoData, result |-> row,
                       before |-> todosTable]
    /\ nextId' = nextId + 1
    /\ UNCHANGED <<dbNow, appNow, deletedIds, issuedIds, lastCreated>>

\* createTodo (handlers/create_todo.ts): resolves with an object built from the
\* input, id 0 and two readings of the application clock (the second reading
\* t2 may fall in the next millisecond); it issues no store statement.
createTodo(input, t2) ==
    /\ StartCall
    /\ t2 \in {appNow, appNow + 1} \cap Times
    /\ LET todo == [id |-> 0, title |-> input.title,
                    description |-> input.description, completed |-> FALSE,
                    created_at |-> appNow, updated_at |-> t2]
       IN  /\ last' = [op |-> "createTodo", input |-> input, result |-> todo,
                       before |-> todosTable, issuedBefore |-> issuedIds]
           /\ issuedIds' = issuedIds \cup {todo.id}
           /\ lastCreated' = [id |-> todo.id, input |-> input]
    /\ appNow' = t2
    /\ UNCHANGED <<todosTable, nextId, dbNow, deletedIds>>

\* getTodo (handlers/get_todo.ts): resolves with an object carrying the
\* requested id and fixed field values; it issues no store statement.
getTodo(input, t2) ==
    /\ StartCall
    /\ t2 \in {appNow, appNow + 1} \cap Times
    /\ LET todo == [id |-> input.id, title |-> "Placeholder todo",
                    description |-> NULL, completed |-> FALSE,
                    created_at |-> appNow, updated_at |-> t2]
       IN  last' = [op |-> "getTodo", input |-> input, result |-> todo,
                    before |-> todosTable]
    /\ appNow' = t2
    /\ UNCHANGED <<todosTable, nextId, dbNow, deletedIds, issuedIds, lastCreated>>

\* All orderings of a set of rows, each row exactly once.
Orderings(rows) ==
    {s \in [1..Cardinality(rows) -> rows] :
        \A i, j \in DOMAIN s : i # j => s[i] # s[j]}

\* Variant: ORDER BY created_at ASC.
OrderByAscCreatedAt(rows) ==
    {s \in Orderings(rows) :
        \A i, j \in DOMAIN s : i < j => s[i].created_at <= s[j].created_at}

\* ORDER BY created_at DESC: the orderings with no row before a newer one
\* (rows with equal created_at come in any order).
OrderByDescCreatedAt(rows) ==
    {s \in Orderings(rows) :
        \A i, j \in DOMAIN s : i < j => s[i].created_at >= s[j].created_at}

\* getTodos: db.select().from(todosTable).orderBy(desc(created_at))
getTodos ==
    /\ StartCall
    /\ \E results \in OrderByDescCreatedAt(todosTable) :
          last' = [op |-> "getTodos", result |-> results, before |-> todosTable]
    /\ UNCHANGED <<todosTable, nextId, dbNow, appNow, deletedIds, issuedIds,
                   lastCreated>>

\* Variant: every column is written, an absent key as a default value.
UpdateDataDefaults(input, now) ==
    [updated_at |-> now,
     title |-> IF "title" \in DOMAIN input THEN input.title ELSE "Updated todo",
     description |-> IF "description" \in DOMAIN input THEN input.description ELSE NULL,
     completed |-> IF "completed" \in DOMAIN input THEN input.completed ELSE FALSE]

\* Variant: description is tested for truthiness, so a null description is
\* treated like an absent one.
UpdateDataTruthy(input, now) ==
    [k \in {"updated_at"} \cup
            {f \in DOMAIN input \cap {"title", "description", "completed"} :
                f = "description" => input.description # NULL}
        |-> IF k = "updated_at" THEN now ELSE input[k]]

\* Variant: updated_at is written only when some other field is written.
UpdateDataNoTouch(input, now) ==
    [k \in (IF DOMAIN input \cap {"title", "description", "completed"} = {}
            THEN {} ELSE {"updated_at"})
           \cup (DOMAIN input \cap {"title", "description", "completed"})
        |-> IF k = "updated_at" THEN now ELSE input[k]]

\* updateData of updateTodo: updated_at always, and each of title, description
\* and completed that is not undefined in the input.
UpdateData(input, now) ==
    [k \in {"updated_at"} \cup (DOMAIN input \cap {"title", "description", "completed"})
        |-> IF k = "updated_at" THEN now ELSE input[k]]

\* UPDATE ... SET updateData on one row.
SetRow(r, updateData) ==
    [k \in DOMAIN r |-> IF k \in DOMAIN updateData THEN updateData[k] ELSE r[k]]

\* result.length > 0 ? result[0] : null
FirstOrNull(result) ==
    IF result # {} THEN CHOOSE r \in result : TRUE ELSE NoResult

\* updateTodo: db.update(todosTable).set(updateData).where(id = input.id)
\* .returning(); the first returned row, or null when none was returned.
updateTodo(input) ==
    /\ StartCall
    /\ LET updateData == UpdateData(input, appNow)
           matched == RowsWithId(todosTable, input.id)
           result == {SetRow(r, updateData) : r \in matched}
       IN  /\ todosTable' = (todosTable \ matched) \cup result
           /\ last' = [op |-> "updateTodo", input |-> input,
                       result |-> FirstOrNull(result), before |-> todosTable]
    /\ lastCreated' = IF lastCreated.id = input.id THEN NoCreate ELSE lastCreated
    /\ UNCHANGED <<nextId, dbNow, appNow, deletedIds, issuedIds>>

\* Variant: result.length >= 0
NonNegative(result) == TRUE

\* result.length > 0
NonEmpty(result) == result # {}

\* deleteTodo: db.delete(todosTable).where(id = input.id).returning();
\* true when a row was returned.
deleteTodo(input) ==
    /\ StartCall
    /\ LET result == RowsWithId(todosTable, input.id)
       IN  /\ todosTable' = todosTable \ result
           /\ last' = [op |-> "deleteTodo", input |-> input,
                       result |-> NonEmpty(result), before |-> todosTable,
                       deletedBefore |-> deletedIds]
           /\ deletedIds' = IF NonEmpty(result) THEN deletedIds \cup {input.id}
                            ELSE deletedIds
    /\ lastCreated' = IF lastCreated.id = input.id THEN NoCreate ELSE lastCreated
    /\ UNCHANGED <<nextId, dbNow, appNow, issuedIds>>

\* ---- store failures ----
StoreErrors == {"connection lost", "constraint violation"}

\* Variant: the catch block throws a new error of its own.
ThrowGeneric(error) == "Error"

\* catch (error) { console.error(..., error); throw error; }
Rethrow(error) == error

\* The handler's one store statement fails with `error` (the statement is
\* atomic: it leaves the table as it was); the catch block logs the error
\* and throws it.  No further statement is issued and no value is returned.
StoreFails(handler, error) ==
    /\ StartCall
    /\ last' = [op |-> "storeError", handler |-> handler, raised |-> error,
                logged |-> error, thrown |-> Rethrow(error), statements |-> 1,
                before |-> todosTable]
    /\ UNCHANGED <<todosTable, nextId, dbNow, appNow, deletedIds, issuedIds,
                   lastCreated>>

\* getTodos, updateTodo, deleteTodo when their statement fails.
getTodosCatch(error) == StoreFails("getTodos", error)
updateTodoCatch(error) == StoreFails("updateTodo", error)
deleteTodoCatch(error) == StoreFails("deleteTodo", error)

\* A procedure whose input fails its schema: the call is rejected with a
\* validation error before the handler runs.
Rejected(procedure, input) ==
    /\ StartCall
    /\ last' = [op |-> "rejected", procedure |-> procedure, input |-> input,
                before |-> todosTable]
    /\ UNCHANGED <<todosTable, nextId, dbNow, appNow, deletedIds, issuedIds,
                   lastCreated>>

\* The createTodo procedure: input(createTodoInputSchema), then the handler.
createTodoProcedure(input, t2) ==
    IF createTodoInputSchema(input) THEN createTodo(input, t2)
    ELSE Rejected("createTodo", input)

\* The updateTodo procedure: input(updateTodoInputSchema), then the handler.
updateTodoProcedure(input) ==
    IF updateTodoInputSchema(input) THEN updateTodo(input)
    ELSE Rejected("updateTodo", input)

\* The awaiting caller takes the result of the call; the next call can start.
Return ==
    /\ ~Idle
    /\ last' = [op |-> "none"]
    /\ UNCHANGED <<todosTable, nextId, dbNow, appNow, deletedIds, issuedIds,
                   lastCreated, calls>>

\* A millisecond passes on the store's clock.
TickDb ==
    /\ Idle
    /\ dbNow < MaxTime
    /\ dbNow' = dbNow + 1
    /\ UNCHANGED <<todosTable, nextId, appNow, deletedIds, issuedIds, lastCreated,
                   last, calls>>

\* A millisecond passes on the application's clock.
TickApp ==
    /\ Idle
    /\ appNow < MaxTime
    /\ appNow' = appNow + 1
    /\ UNCHANGED <<todosTable, nextId, dbNow, deletedIds, issuedIds, lastCreated,
                   last, calls>>

Next ==
    \/ \E in \in CreateTodoInputs : createTestTodo(in) /\ UNCHANGED clientVars
    \/ \E in \in RawCreateInputs, t2 \in Times :
          createTodoProcedure(in, t2) /\ UNCHANGED clientVars
    \/ \E in \in IdInputs, t2 \in Times : getTodo(in, t2) /\ UNCHANGED clientVars
    \/ getTodos /\ UNCHANGED clientVars
    \/ \E in \in RawUpdateInputs : updateTodoProcedure(in) /\ UNCHANGED clientVars
    \/ \E in \in IdInputs : deleteTodo(in) /\ UNCHANGED clientVars
    \/ \E e \in StoreErrors : getTodosCatch(e) /\ UNCHANGED clientVars
    \/ \E e \in StoreErrors : updateTodoCatch(e) /\ UNCHANGED clientVars
    \/ \E e \in StoreErrors : deleteTodoCatch(e) /\ UNCHANGED clientVars
    \/ Return /\ UNCHANGED clientVars
    \/ TickDb /\ UNCHANGED clientVars
    \/ TickApp /\ UNCHANGED clientVars

Spec == Init /\ [][Next]_vars

\* ---- handlers called directly, validation bypassed ----
\* emptyTitleInput as CreateTodoInput
EmptyTitleInputs == [title : {""}, description : Descriptions \cup {NULL}]

NextDirect ==
    \/ Next
    \/ \E in \in EmptyTitleInputs, t2 \in Times :
          createTodo(in, t2) /\ UNCHANGED clientVars

SpecDirect == Init /\ [][NextDirect]_vars

\* ---- concurrent clients ----
\* Each client awaits its own call, the calls of different clients overlap.
\* A call to a handler that reaches the store has two instants: the handler
\* runs up to the await of its statement, then the store executes the
\* statement (one step) and the handler shapes the result.  `statements`
\* counts the store statements executed for the call, `at` is the table the
\* statement was executed on.

\* The id the concurrent clients all ask for: that of the first row inserted
\* (no row has it before the insert and after a delete).
ConcIds == {1}

ConcIdInputs == [id : ConcIds]

\* The updates sent by concurrent clients: the id and at most one other key.
ConcUpdateInputs ==
    {i \in UpdateTodoInputs : i.id \in ConcIds /\ Cardinality(DOMAIN i) <= 2}

\* The todo inserted before the clients start, and created by them.
ConcCreateInputs == {[title |-> "T", description |-> "d"]}

\* A client with no call in flight starts one, once the awaited call before
\* it was delivered; it is counted.
ClientStartCall(c) ==
    Idle /\ pending[c] = NoCall /\ calls < MaxCalls /\ calls' = calls + 1

\* getTodos up to the await of execute(): the select is sent.
getTodosCall(c) ==
    /\ ClientStartCall(c)
    /\ pending' = [pending EXCEPT ![c] =
                      [phase |-> "called", op |-> "getTodos", statements |-> 0]]
    /\ UNCHANGED <<todosTable, nextId, dbNow, appNow, deletedIds, issuedIds,
                   lastCreated, last>>

\* The store executes the select of getTodos; the handler returns its rows.
getTodosSelect(c) ==
    /\ pending[c].phase = "called"
    /\ pending[c].op = "getTodos"
    /\ \E results \in OrderByDescCreatedAt(todosTable) :
          pending' = [pending EXCEPT ![c] =
                         [phase |-> "done", op |-> "getTodos", result |-> results,
                          at |-> todosTable,
                          statements |-> pending[c].statements + 1]]
    /\ UNCHANGED <<todosTable, nextId, dbNow, appNow, deletedIds, issuedIds,
                   lastCreated, last, calls>>

\* updateTodo up to the await of execute(): updateData is built, with the
\* application clock read now, and the update is sent.
updateTodoCall(c, input) ==
    /\ ClientStartCall(c)
    /\ updateTodoInputSchema(input)
    /\ pending' = [pending EXCEPT ![c] =
                      [phase |-> "called", op |-> "updateTodo", input |-> input,
                       updateData |-> UpdateData(input, appNow),
                       existed |-> \E r \in todosTable : r.id = input.id,
                       statements |-> 0]]
    /\ UNCHANGED <<todosTable, nextId, dbNow, appNow, deletedIds, issuedIds,
                   lastCreated, last>>

\* The store executes the update of updateTodo; the handler returns the first
\* returned row or null.
updateTodoUpdate(c) ==
    /\ pending[c].phase = "called"
    /\ pending[c].op = "updateTodo"
    /\ LET p == pending[c]
           matched == RowsWithId(todosTable, p.input.id)
           result == {SetRow(r, p.updateData) : r \in matched}
       IN  /\ todosTable' = (todosTable \ matched) \cup result
           /\ pending' = [pending EXCEPT ![c] =
                             [phase |-> "done", op |-> "updateTodo",
                              input |-> p.input, result |-> FirstOrNull(result),
                              existed |-> p.existed, at |-> todosTable,
                              statements |-> p.statements + 1]]
           /\ lastCreated' = IF lastCreated.id = p.input.id THEN NoCreate
                             ELSE lastCreated
    /\ UNCHANGED <<nextId, dbNow, appNow, deletedIds, issuedIds, last, calls>>

\* deleteTodo up to the await of execute(): the delete is sent.
deleteTodoCall(c, input) ==
    /\ ClientStartCall(c)
    /\ pending' = [pending EXCEPT ![c] =
                      [phase |-> "called", op |-> "deleteTodo", input |-> input,
                       existed |-> \E r \in todosTable : r.id = input.id,
                       statements |-> 0]]
    /\ UNCHANGED <<todosTable, nextId, dbNow, appNow, deletedIds, issuedIds,
                   lastCreated, last>>

\* The store executes the delete of deleteTodo; the handler returns whether a
\* row was returned.
deleteTodoDelete(c) ==
    /\ pending[c].phase = "called"
    /\ pending[c].op = "deleteTodo"
    /\ LET p == pending[c]
           result == RowsWithId(todosTable, p.input.id)
       IN  /\ todosTable' = todosTable \ result
           /\ pending' = [pending EXCEPT ![c] =
                             [phase |-> "done", op |-> "deleteTodo",
                              input |-> p.input, result |-> NonEmpty(result),
                              existed |-> p.existed, at |-> todosTable,
                              statements |-> p.statements + 1]]
           /\ deletedIds' = IF NonEmpty(result) THEN deletedIds \cup {p.input.id}
                            ELSE deletedIds
           /\ lastCreated' = IF lastCreated.id = p.input.id THEN NoCreate
                             ELSE lastCreated
    /\ UNCHANGED <<nextId, dbNow, appNow, issuedIds, last, calls>>

\* createTodo called by a client: the handler resolves at once with the
\* object it builds; no statement is sent to the store.
createTodoResolve(c, input, t2) ==
    /\ ClientStartCall(c)
    /\ createTodoInputSchema(input)
    /\ t2 \in {appNow, appNow + 1} \cap Times
    /\ LET todo == [id |-> 0, title |-> input.title,
                    description |-> input.description, completed |-> FALSE,
                    created_at |-> appNow, updated_at |-> t2]
       IN  /\ pending' = [pending EXCEPT ![c] =
                             [phase |-> "done", op |-> "createTodo",
                              input |-> input, result |-> todo,
                              at |-> todosTable, statements |-> 0]]
           /\ issuedIds' = issuedIds \cup {todo.id}
           /\ lastCreated' = [id |-> todo.id, input |-> input]
    /\ appNow' = t2
    /\ UNCHANGED <<todosTable, nextId, dbNow, deletedIds, last>>

\* getTodo called by a client: the handler resolves at once with the object
\* it builds; no statement is sent to the store.
getTodoResolve(c, input, t2) ==
    /\ ClientStartCall(c)
    /\ t2 \in {appNow, appNow + 1} \cap Times
    /\ LET todo == [id |-> input.id, title |-> "Placeholder todo",
                    description |-> NULL, completed |-> FALSE,
                    created_at |-> appNow, updated_at |-> t2]
       IN  pending' = [pending EXCEPT ![c] =
                          [phase |-> "done", op |-> "getTodo", input |-> input,
                           result |-> todo, at |-> todosTable,
                           statements |-> 0]]
    /\ appNow' = t2
    /\ UNCHANGED <<todosTable, nextId, dbNow, deletedIds, issuedIds, lastCreated,
                   last>>

\* The client receives the result of its call.
Deliver(c) ==
    /\ pending[c].phase = "done"
    /\ pending' = [pending EXCEPT ![c] = NoCall]
    /\ UNCHANGED <<todosTable, nextId, dbNow, appNow, deletedIds, issuedIds,
                   lastCreated, last, calls>>

NextConc ==
    \/ \E in \in ConcCreateInputs : createTestTodo(in) /\ UNCHANGED clientVars
    \/ Return /\ UNCHANGED clientVars
    \/ TickDb /\ UNCHANGED clientVars
    \/ TickApp /\ UNCHANGED clientVars
    \/ \E c \in Clients : getTodosCall(c) /\ UNCHANGED appVars
    \/ \E c \in Clients : getTodosSelect(c) /\ UNCHANGED appVars
    \/ \E c \in Clients, in \in ConcUpdateInputs :
          updateTodoCall(c, in) /\ UNCHANGED appVars
    \/ \E c \in Clients : updateTodoUpdate(c) /\ UNCHANGED appVars
    \/ \E c \in Clients, in \in ConcIdInputs :
          deleteTodoCall(c, in) /\ UNCHANGED appVars
    \/ \E c \in Clients : deleteTodoDelete(c) /\ UNCHANGED appVars
    \/ \E c \in Clients, in \in ConcCreateInputs, t2 \in Times :
          createTodoResolve(c, in, t2) /\ UNCHANGED appVars
    \/ \E c \in Clients, in \in ConcIdInputs, t2 \in Times :
          getTodoResolve(c, in, t2) /\ UNCHANGED appVars
    \/ \E c \in Clients : Deliver(c) /\ UNCHANGED appVars

SpecConc == Init /\ [][NextConc]_vars

\* ---- the client (client/src/App.tsx) ----
\* One App, no other writer once it is mounted.  Each handler is one step:
\* the call of the procedure, the await of its answer and the state update
\* that follows, or the catch block when the call fails.

\* What can be typed into a title field.
FormTitles == Titles \cup {"", " "}

\* String.prototype.trim on the titles above.
Trim(s) == IF s = " " THEN "" ELSE s

\* formData: title and description are always present.
FormDataInputs == [title : FormTitles, description : Descriptions \cup {NULL}]

\* editFormData after startEdit(todo) and some typing: id and completed are
\* those of the todo, the title is anything, the description is untouched,
\* retyped or emptied (e.target.value || null).
EditFormDataInputs(todo) ==
    [id : {todo.id}, title : FormTitles,
     description : {todo.description} \cup NewDescriptions \cup {NULL},
     completed : {todo.completed}]

\* todos.map(t => t.id === id ? updatedTodo : t)
MapReplace(list, id, updatedTodo) ==
    [i \in DOMAIN list |-> IF list[i].id = id THEN updatedTodo ELSE list[i]]

\* todos.filter(t => t.id !== todoId)
FilterOut(list, todoId) == SelectSeq(list, LAMBDA t : t.id # todoId)

\* The todo is rendered in display mode, with its checkbox and buttons:
\* not (editingTodo?.id === todo.id).
DisplayMode(todo) ==
    IF editingTodo = NoResult THEN TRUE ELSE editingTodo.id # todo.id

\* Rows are inserted before App is mounted, by nobody afterwards.
seedTodo(todoData) ==
    /\ loaded = "no"
    /\ createTestTodo(todoData)
    /\ UNCHANGED clientVars

\* loadTodos, run once by the mount effect: setTodos(result), or the catch
\* block, which only logs.
loadTodos ==
    /\ loaded = "no"
    /\ \/ /\ getTodos
          /\ todos' = last'.result
          /\ loaded' = "yes"
       \/ /\ \E e \in StoreErrors : getTodosCatch(e)
          /\ todos' = todos
          /\ loaded' = "failed"
    /\ UNCHANGED <<pending, editingTodo>>

\* handleCreateSubmit: returns when the trimmed title is empty; otherwise
\* awaits createTodo and prepends the answer to todos.
handleCreateSubmit(formData, t2) ==
    /\ loaded # "no"
    /\ IF Trim(formData.title) = ""
       THEN UNCHANGED vars
       ELSE /\ createTodoProcedure(formData, t2)
            /\ todos' = IF last'.op = "createTodo"
                        THEN <<last'.result>> \o todos ELSE todos
            /\ UNCHANGED <<pending, editingTodo, loaded>>

\* handleToggleComplete(todo): awaits updateTodo({id, completed: !completed});
\* a non-null answer replaces the todos with that id; the catch block only logs.
handleToggleComplete(todo) ==
    /\ loaded # "no"
    /\ DisplayMode(todo)
    /\ \/ /\ updateTodoProcedure([id |-> todo.id, completed |-> ~todo.completed])
          /\ todos' = IF last'.op = "updateTodo" /\ last'.result # NoResult
                      THEN MapReplace(todos, todo.id, last'.result) ELSE todos
       \/ /\ \E e \in StoreErrors : updateTodoCatch(e)
          /\ todos' = todos
    /\ UNCHANGED <<pending, editingTodo, loaded>>

\* Variant: the edit form is closed whatever the answer, setEditingTodo(null)
\* placed after the if and in the catch block.
handleEditSubmitAlwaysClose(editFormData) ==
    /\ loaded # "no"
    /\ IF Trim(editFormData.title) = ""
       THEN UNCHANGED vars
       ELSE /\ \/ /\ updateTodoProcedure(editFormData)
                  /\ todos' = IF last'.op = "updateTodo" /\ last'.result # NoResult
                              THEN MapReplace(todos, last'.result.id, last'.result)
                              ELSE todos
               \/ /\ \E e \in StoreErrors : updateTodoCatch(e)
                  /\ todos' = todos
            /\ editingTodo' = NoResult
            /\ UNCHANGED <<pending, loaded>>

\* handleEditSubmit: returns when the trimmed title is empty; otherwise awaits
\* updateTodo(editFormData); a non-null answer replaces the todos with its id
\* and closes the edit form; the catch block only logs.
handleEditSubmit(editFormData) ==
    /\ loaded # "no"
    /\ IF Trim(editFormData.title) = ""
       THEN UNCHANGED vars
       ELSE /\ \/ /\ updateTodoProcedure(editFormData)
                  /\ IF last'.op = "updateTodo" /\ last'.result # NoResult
                     THEN /\ todos' = MapReplace(todos, last'.result.id, last'.result)
                          /\ editingTodo' = NoResult
                     ELSE UNCHANGED <<todos, editingTodo>>
               \/ /\ \E e \in StoreErrors : updateTodoCatch(e)
                  /\ UNCHANGED <<todos, editingTodo>>
            /\ UNCHANGED <<pending, loaded>>

\* handleDelete(todoId): awaits deleteTodo({id}); on true the todos with that
\* id are filtered out; the catch block only logs.
handleDelete(todoId) ==
    /\ loaded # "no"
    /\ \/ /\ deleteTodo([id |-> todoId])
          /\ todos' = IF last'.result THEN FilterOut(todos, todoId) ELSE todos
       \/ /\ \E e \in StoreErrors : deleteTodoCatch(e)
          /\ todos' = todos
    /\ UNCHANGED <<pending, editingTodo, loaded>>

\* startEdit(todo): setEditingTodo(todo), editFormData from the todo.
startEdit(todo) ==
    /\ Idle
    /\ DisplayMode(todo)
    /\ editingTodo' = todo
    /\ UNCHANGED <<todosTable, nextId, dbNow, appNow, deletedIds, issuedIds,
                   lastCreated, last, calls, pending, todos, loaded>>

\* cancelEdit: setEditingTodo(null)
cancelEdit ==
    /\ Idle
    /\ editingTodo # NoResult
    /\ editingTodo' = NoResult
    /\ UNCHANGED <<todosTable, nextId, dbNow, appNow, deletedIds, issuedIds,
                   lastCreated, last, calls, pending, todos, loaded>>

NextApp ==
    \/ \E in \in CreateTodoInputs : seedTodo(in)
    \/ loadTodos
    \/ \E fd \in FormDataInputs, t2 \in Times : handleCreateSubmit(fd, t2)
    \/ \E i \in DOMAIN todos : handleToggleComplete(todos[i])
    \/ /\ editingTodo # NoResult
       /\ \E efd \in EditFormDataInputs(editingTodo) : handleEditSubmit(efd)
    \/ \E i \in DOMAIN todos : DisplayMode(todos[i]) /\ handleDelete(todos[i].id)
    \/ \E i \in DOMAIN todos : startEdit(todos[i])
    \/ cancelEdit
    \/ Return /\ UNCHANGED clientVars
    \/ TickDb /\ UNCHANGED clientVars
    \/ TickApp /\ UNCHANGED clientVars

SpecApp == Init /\ [][NextApp]_vars

\* ---------------------------------------------------------------------
\* Properties of the handlers, stated over the last call.
\* ---------------------------------------------------------------------
HasId(rows, i) == \E r \in rows : r.id = i
RowOf(rows, i) == CHOOSE r \in rows : r.id = i

\* The last call was an updateTodo on an id that had a row.
UpdatedExisting == last.op = "updateTodo" /\ HasId(last.before, last.input.id)
OldRow == RowOf(last.before, last.input.id)
CurRow == RowOf(todosTable, last.input.id)

\* C1: createTodo adds exactly one new row carrying the input's title and
\* description, completed false and created_at = updated_at, and returns
\* that persisted row.
C1_CreatePersistsRow ==
    last.op = "createTodo" =>
        /\ last.result \notin last.before
        /\ todosTable = last.before \cup {last.result}
        /\ Cardinality({r \in todosTable : r.id = last.result.id}) = 1
        /\ last.result.title = last.input.title
        /\ last.result.description = last.input.description
        /\ last.result.completed = FALSE
        /\ last.result.created_at = last.result.updated_at

\* C2: an updateTodo on an existing id keeps each of title, description and
\* completed that is absent from the input, replaces each one present by the
\* input value, never changes id or created_at, and returns the stored row.
C2_PartialUpdate ==
    UpdatedExisting =>
        /\ Cardinality({r \in todosTable : r.id = last.input.id}) = 1
        /\ \A k \in {"title", "description", "completed"} :
              CurRow[k] = IF k \in DOMAIN last.input THEN last.input[k] ELSE OldRow[k]
        /\ CurRow.id = OldRow.id
        /\ CurRow.created_at = OldRow.created_at
        /\ last.result = CurRow
        /\ {r \in todosTable : r.id # last.input.id}
              = {r \in last.before : r.id # last.input.id}

C2_Witness ==
    /\ UpdatedExisting
    /\ DOMAIN last.input = {"id", "title"}
    /\ OldRow.title # last.input.title
    /\ OldRow.description # NULL
    /\ CurRow.title = last.input.title

\* C3: updateTodo tells three states of description apart: null clears a
\* non-null description, a string replaces it, an omitted key leaves the
\* stored description (null or not) as it was.
C3_DescriptionTriState ==
    UpdatedExisting =>
        /\ "description" \notin DOMAIN last.input
              => CurRow.description = OldRow.description
        /\ ("description" \in DOMAIN last.input /\ last.input.description = NULL)
              => CurRow.description = NULL
        /\ ("description" \in DOMAIN last.input /\ last.input.description # NULL)
              => CurRow.description = last.input.description

C3_Witness ==
    /\ UpdatedExisting
    /\ "description" \in DOMAIN last.input
    /\ last.input.description = NULL
    /\ OldRow.description # NULL
    /\ CurRow.description = NULL

C5_MissIsNotAnError ==
    /\ (last.op = "updateTodo" /\ ~HasId(last.before, last.input.id))
          => (last.result = NoResult /\ todosTable = last.before)
    /\ (last.op = "deleteTodo" /\ ~HasId(last.before, last.input.id))
          => (last.result = FALSE /\ todosTable = last.before)

C5_Witness ==
    /\ last.op \in {"updateTodo", "deleteTodo"}
    /\ ~HasId(last.before, last.input.id)
    /\ last.before # {}
    /\ todosTable = last.before

\* C6: deleteTodo returns true exactly when it removed a row: for an
\* existing id it returns true and the row is gone, and a deleteTodo of an
\* id that an earlier deleteTodo removed returns false.
C6_DeleteTrueIffRemoved ==
    last.op = "deleteTodo" =>
        /\ last.result = (todosTable # last.before)
        /\ HasId(last.before, last.input.id)
              => /\ last.result = TRUE
                 /\ ~HasId(todosTable, last.input.id)
                 /\ todosTable = {r \in last.before : r.id # last.input.id}
        /\ last.input.id \in last.deletedBefore => last.result = FALSE

\* A second deleteTodo of an id that was deleted before.
C6_Witness ==
    /\ last.op = "deleteTodo"
    /\ last.input.id \in last.deletedBefore
    /\ last.result = FALSE

\* C7: getTodo returns the stored row with the requested id when there is
\* one and null when there is none, and never changes the table.
C7_GetTodoFindsRow ==
    last.op = "getTodo" =>
        /\ HasId(last.before, last.input.id)
              => last.result = RowOf(last.before, last.input.id)
        /\ ~HasId(last.before, last.input.id) => last.result = NoResult
        /\ todosTable = last.before

\* C8: createTodo followed by getTodo on the returned id, with no update or
\* delete of that id in between, returns a row with that id, the input
\* title, the input description and completed false.
C8_CreateGetRoundTrip ==
    (last.op = "getTodo" /\ lastCreated # NoCreate /\ last.input.id = lastCreated.id)
        => /\ last.result # NoResult
           /\ last.result.id = lastCreated.id
           /\ last.result.title = lastCreated.input.title
           /\ last.result.description = lastCreated.input.description
           /\ last.result.completed = FALSE

\* C9: getTodos returns every row of the table exactly once and nothing
\* else (as many rows as were inserted when none was deleted), each
\* result's created_at being at least the next result's.
C9_GetTodosAllSorted ==
    last.op = "getTodos" =>
        /\ Len(last.result) = Cardinality(todosTable)
        /\ {last.result[i] : i \in 1..Len(last.result)} = todosTable
        /\ \A i, j \in 1..Len(last.result) : i # j => last.result[i] # last.result[j]
        /\ \A i \in 1..(Len(last.result) - 1) :
              last.result[i].created_at >= last.result[i + 1].created_at
        /\ deletedIds = {} => Len(last.result) = nextId - 1
        /\ todosTable = last.before

\* Two rows created at different times, listed newest first.
C9_Witness ==
    /\ last.op = "getTodos"
    /\ Len(last.result) = 2
    /\ last.result[1].created_at > last.result[2].created_at
    /\ last.result[1].id > last.result[2].id

\* C10: every createTodo returns an id greater than 0 that no other
\* createTodo returned, and no two rows of the table share an id.
C10_IdsGeneratedUnique ==
    /\ last.op = "createTodo"
          => (last.result.id > 0 /\ last.result.id \notin last.issuedBefore)
    /\ \A r1, r2 \in todosTable : r1.id = r2.id => r1 = r2

\* C11: in every reachable state of the table every row satisfies
\* created_at <= updated_at.
C11_CreatedNotAfterUpdated ==
    \A r \in todosTable : r.created_at <= r.updated_at

\* An input the validation layer must reject: an empty title, or a create
\* input without a description key.
Malformed(procedure, input) ==
    \/ "title" \in DOMAIN input /\ input.title = ""
    \/ procedure = "createTodo" /\ "description" \notin DOMAIN input

\* C12: when every create and update input has passed its input schema, no
\* persisted row has an empty title.
C12_NoEmptyTitleStored ==
    \A r \in todosTable : r.title # ""

\* A title replaced by an update that passed the schema.
C12_Witness ==
    /\ UpdatedExisting
    /\ "title" \in DOMAIN last.input
    /\ OldRow.title # last.input.title
    /\ CurRow.title = last.input.title
    /\ CurRow.title # ""

\* C13: a malformed input (an empty title on create or update, a create
\* without a description key) is rejected before any store access and the
\* table is left as it was; nothing else is rejected, so a create with
\* description null is accepted.
C13_MalformedRejected ==
    /\ last.op = "rejected"
          => (todosTable = last.before /\ Malformed(last.procedure, last.input))
    /\ last.op \in {"createTodo", "updateTodo"}
          => ~Malformed(last.op, last.input)

\* A create without a description key was rejected while the table held rows.
C13_Witness ==
    /\ last.op = "rejected"
    /\ last.procedure = "createTodo"
    /\ "description" \notin DOMAIN last.input
    /\ last.input.title # ""
    /\ todosTable # {}
    /\ todosTable = last.before

\* C14: when the store fails during getTodos, updateTodo or deleteTodo the
\* handler logs the error and throws that same error: one statement was
\* issued, no value is returned and the table is as it was.
C14_StoreErrorRethrown ==
    last.op = "storeError" =>
        /\ last.handler \in {"getTodos", "updateTodo", "deleteTodo"}
        /\ last.thrown = last.raised
        /\ last.logged = last.raised
        /\ last.statements = 1
        /\ "result" \notin DOMAIN last
        /\ todosTable = last.before

C14_Witness ==
    /\ last.op = "storeError"
    /\ last.handler = "updateTodo"
    /\ last.thrown = "constraint violation"
    /\ todosTable # {}

\* C15: createTodo called directly with an empty title does not reject: it
\* resolves with a defined row, and the empty title is persisted.
C15_EmptyTitlePersisted ==
    (last.op = "createTodo" /\ last.input.title = "") =>
        /\ last.result # NoResult
        /\ last.result.title = ""
        /\ \E r \in todosTable : r.id = last.result.id /\ r.title = ""

\* C16: deleteTodo of one id leaves every other row untouched: the table
\* afterwards holds exactly the rows it held before minus the row with that
\* id, each with all its fields unchanged.
C16_DeleteFrame ==
    last.op = "deleteTodo" =>
        /\ \A r \in last.before : r.id # last.input.id => r \in todosTable
        /\ \A r \in todosTable : r \in last.before /\ r.id # last.input.id
        /\ Cardinality(todosTable)
              = Cardinality(last.before)
                  - (IF \E r \in last.before : r.id = last.input.id THEN 1 ELSE 0)

\* The newer of two rows stays when the older one is deleted.
C16_Witness ==
    /\ last.op = "deleteTodo"
    /\ last.result = TRUE
    /\ Cardinality(last.before) = 2
    /\ Cardinality(todosTable) = 1
    /\ \E r \in todosTable : r.id > last.input.id

\* ---------------------------------------------------------------------
\* Properties of concurrent calls, stated over the calls in flight.
\* ---------------------------------------------------------------------
Done(c) == pending[c].phase = "done"
RowsIn(s) == {s[i] : i \in DOMAIN s}
SortedDesc(s) ==
    \A i, j \in DOMAIN s : i < j => s[i].created_at >= s[j].created_at

\* The result of a getTodos call is the table its select was executed on,
\* each row once, newest first.
IsSnapshot(p) ==
    /\ RowsIn(p.result) = p.at
    /\ Len(p.result) = Cardinality(p.at)
    /\ SortedDesc(p.result)

\* C17: under any interleaving of the clients' calls, every completed call
\* took effect as exactly one store statement, and every getTodos result is
\* the table at the instant of its select, sorted by created_at descending.
C17_OneAtomicStep ==
    \A c \in Clients :
        Done(c) =>
            /\ pending[c].statements = 1
            /\ pending[c].op = "getTodos" => IsSnapshot(pending[c])

\* The part of C17 about the handlers that reach the store: getTodos,
\* updateTodo and deleteTodo execute one statement each, and a getTodos
\* result is one table state, whatever the other client does meanwhile.
C17_StoreBackedHandlers ==
    \A c \in Clients :
        (Done(c) /\ pending[c].op \in {"getTodos", "updateTodo", "deleteTodo"}) =>
            /\ pending[c].statements = 1
            /\ pending[c].op = "getTodos" => IsSnapshot(pending[c])

\* A getTodos result that another client's delete, executed after the
\* select, has already made stale.
C17_StaleSnapshotReached ==
    \E c, d \in Clients :
        /\ c # d
        /\ Done(c) /\ pending[c].op = "getTodos"
        /\ Len(pending[c].result) = 1
        /\ Done(d) /\ pending[d].op = "deleteTodo" /\ pending[d].result = TRUE
        /\ pending[c].at # todosTable

\* Two different clients whose calls of `op` for the same id have both
\* completed, the row having been there when each was called.
BothDone(c, d, op) ==
    /\ c # d
    /\ Done(c) /\ pending[c].op = op
    /\ Done(d) /\ pending[d].op = op
    /\ pending[c].input.id = pending[d].input.id
    /\ pending[c].existed /\ pending[d].existed

\* C18: of two concurrent deleteTodo calls for the same existing id, exactly
\* one returns true and the other returns false, whatever the interleaving.
C18_OneDeleteWins ==
    \A c, d \in Clients :
        BothDone(c, d, "deleteTodo") =>
            (pending[c].result = TRUE) # (pending[d].result = TRUE)

\* Both clients called deleteTodo while the row was there; one got true, the
\* other false, and the row is gone.
C18_Witness ==
    \E c, d \in Clients :
        /\ BothDone(c, d, "deleteTodo")
        /\ pending[c].result = TRUE
        /\ pending[d].result = FALSE
        /\ ~ \E r \in todosTable : r.id = pending[c].input.id

\* The fields an update input supplies besides the id.
SuppliedKeys(input) == DOMAIN input \ {"id"}

\* The row with id i carries every value the input supplies.
Carries(rows, i, input) ==
    \E r \in rows :
        /\ r.id = i
        /\ \A k \in SuppliedKeys(input) : r[k] = input[k]

\* The update of y was executed on the row as the update of x left it, and
\* the row is still as the update of y left it: the two statements are the
\* last two on the row, nothing else wrote it in between or since.
LastTwoWrites(x, y) ==
    /\ pending[x].result # NoResult
    /\ pending[y].result # NoResult
    /\ pending[x].result \in pending[y].at
    /\ pending[y].result \in todosTable

\* C19: two concurrent updateTodo calls on the same existing id that supply
\* disjoint fields both take effect, in either order: with no other write to
\* the row, the row afterwards carries the values of both inputs.
C19_NoLostUpdate ==
    \A c, d \in Clients :
        (/\ BothDone(c, d, "updateTodo")
         /\ SuppliedKeys(pending[c].input) \cap SuppliedKeys(pending[d].input) = {}
         /\ LastTwoWrites(c, d) \/ LastTwoWrites(d, c))
            => /\ Carries(todosTable, pending[c].input.id, pending[c].input)
               /\ Carries(todosTable, pending[c].input.id, pending[d].input)

\* One client set only the title, the other only completed, both calls in
\* flight together; the title update ran first (its returned row is still
\* not completed) and the row now has the new title and is completed.
C19_Witness ==
    \E c, d \in Clients :
        /\ BothDone(c, d, "updateTodo")
        /\ SuppliedKeys(pending[c].input) = {"title"}
        /\ SuppliedKeys(pending[d].input) = {"completed"}
        /\ pending[c].input.title = "U"
        /\ pending[d].input.completed = TRUE
        /\ pending[c].result # NoResult
        /\ pending[c].result.completed = FALSE
        /\ LastTwoWrites(c, d)
        /\ \E r \in todosTable :
              r.id = pending[c].input.id /\ r.title = "U" /\ r.completed = TRUE

\* ---------------------------------------------------------------------
\* Properties of App, stated over its todos list and the table.
\* ---------------------------------------------------------------------
\* The list is something getTodos could return on the table: the rows of the
\* table, each once, newest first.
IsListing(list, rows) ==
    /\ RowsIn(list) = rows
    /\ Len(list) = Cardinality(rows)
    /\ SortedDesc(list)

\* C20: for a single client with no other writers, after the initial
\* loadTodos and any sequence of completed create, toggle, edit-save and
\* delete actions, the todos list of App is what getTodos would return:
\* the rows of the table with the same values in the same order.
C20_ListEqualsGetTodos ==
    loaded = "yes" => IsListing(todos, todosTable)

\* The part of C20 that does not involve createTodo: as long as nothing was
\* created from App, its list is what getTodos would return.
C20_WithoutCreate ==
    (loaded = "yes" /\ issuedIds = {}) => IsListing(todos, todosTable)

\* App toggled the todo it had loaded, and its list shows the row as stored.
C20_ToggleShown ==
    /\ loaded = "yes"
    /\ issuedIds = {}
    /\ last.op = "updateTodo"
    /\ last.result # NoResult
    /\ last.result.completed
    /\ todos = <<last.result>>
    /\ todosTable = {last.result}

\* The answer App got to an updateTodo or deleteTodo call is negative (null,
\* false) or a failure (a rejection or a store error thrown to the caller).
NegativeAnswer(l) ==
    \/ l.op = "updateTodo" /\ l.result = NoResult
    \/ l.op = "deleteTodo" /\ l.result = FALSE
    \/ l.op = "storeError" /\ l.handler \in {"updateTodo", "deleteTodo"}
    \/ l.op = "rejected" /\ l.procedure = "updateTodo"

\* C21: in App a negative or failed answer of updateTodo or deleteTodo never
\* changes the local list: the step of the handler that got it leaves todos
\* exactly as it was, and leaves editingTodo as it was, so after a null or
\* failed edit-save the edit form stays open.
C21_NegativeAnswerFrame ==
    [][(last.op = "none" /\ NegativeAnswer(last'))
          => (todos' = todos /\ editingTodo' = editingTodo)]_vars

\* An edit-save was answered null (the todo is not in the table); the list
\* still shows the todo and the edit form is still open on it.
C21_Witness ==
    /\ loaded = "yes"
    /\ last.op = "updateTodo"
    /\ "title" \in DOMAIN last.input
    /\ last.result = NoResult
    /\ editingTodo # NoResult
    /\ editingTodo.id = last.input.id
    /\ \E i \in DOMAIN todos : todos[i] = editingTodo
====
